---- MODULE Spec2Model ----
(***************************************************************************)
(* Model of GA-3-09.py: main(), the command-line check parse_input, the    *)
(* structure parser clean_and_parse_qwen_output and the renderer           *)
(* generate_html.  The language model behind generate_raw_text is an       *)
(* input: any text of RawTexts, or an exception.                           *)
(*                                                                         *)
(* A Python str is a sequence of Unicode code points (ord of each          *)
(* character): "#" is 35, " " is 32, "\n" is 10, "в" is 1074, "В" is 1042. *)
(* A Python list is a sequence, a dict a record.                           *)
(***************************************************************************)
EXTENDS Integers, Sequences, FiniteSets, TLC

VARIABLES
    pc,               \* position in main(): "start", "generate", "parse",
                      \* "loop", "parsed", "done"; "rejected" after the
                      \* return of line 196, "failed" after an exception
                      \* that main() does not catch
    prompt,           \* the value of --prompt on the command line
    keywords,         \* None or the str returned by parse_input
    stdout,           \* what print has written, one record per call
    out_file,         \* the file at output_path: NoFile or File(text, whole)
    raw_text,         \* the text returned by generate_raw_text, '' before
    lines,            \* clean_and_parse_qwen_output: lines
    i,                \* index of the line the for loop handles next
    parsed,           \* the dict parsed: title, sections, conclusion
    current_h2,       \* None or a str
    current_p_lines,  \* list of str
    in_conclusion,    \* bool
    html              \* generate_html: the pieces appended to html after the shell

vars == <<pc, prompt, keywords, stdout, out_file, raw_text, lines, i, parsed,
          current_h2, current_p_lines, in_conclusion, html>>

(***************************************************************************)
(* Bounds of the model.                                                    *)
(***************************************************************************)
MaxLines == 4

(***************************************************************************)
(* str operations, computed as Python computes them.                       *)
(***************************************************************************)
\* None: a value that is no str (no code point is negative).
None == <<-1>>

\* The file at output_path: whether there is one, the elements of the
\* document it holds in full, and whether it is the whole document.
NoFile == [exists |-> FALSE, text |-> <<>>, whole |-> FALSE]
File(text, whole) == [exists |-> TRUE, text |-> text, whole |-> whole]

\* Truth value of x, None or a str: None and '' are false.
Truthy(x) == x # None /\ x # <<>>

\* Truth value of a list: [] is false.
NonEmpty(l) == l # <<>>

\* The whitespace of str.strip() and str.split(): the characters c with
\* chr(c).isspace().
IsSpace(c) ==
    c \in {9, 10, 11, 12, 13, 28, 29, 30, 31, 32, 133, 160, 5760, 8192, 8193,
           8194, 8195, 8196, 8197, 8198, 8199, 8200, 8201, 8202, 8232, 8233,
           8239, 8287, 12288}

\* s.strip(): s from its first to its last character that is no whitespace.
Strip(s) ==
    IF \A k \in 1..Len(s) : IsSpace(s[k]) THEN <<>>
    ELSE SubSeq(s,
                CHOOSE k \in 1..Len(s) :
                    ~IsSpace(s[k]) /\ \A m \in 1..(k - 1) : IsSpace(s[m]),
                CHOOSE k \in 1..Len(s) :
                    ~IsSpace(s[k]) /\ \A m \in (k + 1)..Len(s) : IsSpace(s[m]))

\* s.startswith(prefix)
StartsWith(s, prefix) ==
    Len(s) >= Len(prefix) /\ SubSeq(s, 1, Len(prefix)) = prefix

\* s.split('\n'): the pieces between the newlines, always at least one piece.
SplitLines(s) ==
    LET nl == {k \in 1..Len(s) : s[k] = 10}
        \* the position of the n-th newline; 0 and Len(s) + 1 bracket the text
        At(n) == IF n = 0 THEN 0
                 ELSE IF n > Cardinality(nl) THEN Len(s) + 1
                 ELSE CHOOSE k \in nl : Cardinality({m \in nl : m < k}) = n - 1
    IN [n \in 1..(Cardinality(nl) + 1) |-> SubSeq(s, At(n - 1) + 1, At(n) - 1)]

\* sep.join(parts)
RECURSIVE Join(_, _)
Join(parts, sep) ==
    IF parts = <<>> THEN <<>>
    ELSE IF Len(parts) = 1 THEN parts[1]
    ELSE parts[1] \o sep \o Join(Tail(parts), sep)

\* The lower-case mapping of the Unicode database of the interpreter
\* (Python 3.11), from U+00C0 on and the block U+0400..U+045F aside: the
\* code points from `first` to `last`, every `step`-th one, map to
\* themselves plus `delta`.  Rows <<first, last, step, delta>>.
LowerTable ==
    <<
      <<192, 214, 1, 32>>, <<216, 222, 1, 32>>, <<256, 302, 2, 1>>,
      <<306, 310, 2, 1>>, <<313, 327, 2, 1>>, <<330, 374, 2, 1>>,
      <<376, 376, 1, -121>>, <<377, 381, 2, 1>>, <<385, 385, 1, 210>>,
      <<386, 388, 2, 1>>, <<390, 390, 1, 206>>, <<391, 391, 1, 1>>,
      <<393, 394, 1, 205>>, <<395, 395, 1, 1>>, <<398, 398, 1, 79>>,
      <<399, 399, 1, 202>>, <<400, 400, 1, 203>>, <<401, 401, 1, 1>>,
      <<403, 403, 1, 205>>, <<404, 404, 1, 207>>, <<406, 406, 1, 211>>,
      <<407, 407, 1, 209>>, <<408, 408, 1, 1>>, <<412, 412, 1, 211>>,
      <<413, 413, 1, 213>>, <<415, 415, 1, 214>>, <<416, 420, 2, 1>>,
      <<422, 422, 1, 218>>, <<423, 423, 1, 1>>, <<425, 425, 1, 218>>,
      <<428, 428, 1, 1>>, <<430, 430, 1, 218>>, <<431, 431, 1, 1>>,
      <<433, 434, 1, 217>>, <<435, 437, 2, 1>>, <<439, 439, 1, 219>>,
      <<440, 440, 1, 1>>, <<444, 444, 1, 1>>, <<452, 452, 1, 2>>,
      <<453, 453, 1, 1>>, <<455, 455, 1, 2>>, <<456, 456, 1, 1>>,
      <<458, 458, 1, 2>>, <<459, 475, 2, 1>>, <<478, 494, 2, 1>>,
      <<497, 497, 1, 2>>, <<498, 500, 2, 1>>, <<502, 502, 1, -97>>,
      <<503, 503, 1, -56>>, <<504, 542, 2, 1>>, <<544, 544, 1, -130>>,
      <<546, 562, 2, 1>>, <<570, 570, 1, 10795>>, <<571, 571, 1, 1>>,
      <<573, 573, 1, -163>>, <<574, 574, 1, 10792>>, <<577, 577, 1, 1>>,
      <<579, 579, 1, -195>>, <<580, 580, 1, 69>>, <<581, 581, 1, 71>>,
      <<582, 590, 2, 1>>, <<880, 882, 2, 1>>, <<886, 886, 1, 1>>,
      <<895, 895, 1, 116>>, <<902, 902, 1, 38>>, <<904, 906, 1, 37>>,
      <<908, 908, 1, 64>>, <<910, 911, 1, 63>>, <<913, 929, 1, 32>>,
      <<931, 939, 1, 32>>, <<975, 975, 1, 8>>, <<984, 1006, 2, 1>>,
      <<1012, 1012, 1, -60>>, <<1015, 1015, 1, 1>>, <<1017, 1017, 1, -7>>,
      <<1018, 1018, 1, 1>>, <<1021, 1023, 1, -130>>, <<1120, 1152, 2, 1>>,
      <<1162, 1214, 2, 1>>, <<1216, 1216, 1, 15>>, <<1217, 1229, 2, 1>>,
      <<1232, 1326, 2, 1>>, <<1329, 1366, 1, 48>>, <<4256, 4293, 1, 7264>>,
      <<4295, 4295, 1, 7264>>, <<4301, 4301, 1, 7264>>,
      <<5024, 5103, 1, 38864>>, <<5104, 5109, 1, 8>>,
      <<7312, 7354, 1, -3008>>, <<7357, 7359, 1, -3008>>,
      <<7680, 7828, 2, 1>>, <<7838, 7838, 1, -7615>>, <<7840, 7934, 2, 1>>,
      <<7944, 7951, 1, -8>>, <<7960, 7965, 1, -8>>, <<7976, 7983, 1, -8>>,
      <<7992, 7999, 1, -8>>, <<8008, 8013, 1, -8>>, <<8025, 8031, 2, -8>>,
      <<8040, 8047, 1, -8>>, <<8072, 8079, 1, -8>>, <<8088, 8095, 1, -8>>,
      <<8104, 8111, 1, -8>>, <<8120, 8121, 1, -8>>, <<8122, 8123, 1, -74>>,
      <<8124, 8124, 1, -9>>, <<8136, 8139, 1, -86>>, <<8140, 8140, 1, -9>>,
      <<8152, 8153, 1, -8>>, <<8154, 8155, 1, -100>>, <<8168, 8169, 1, -8>>,
      <<8170, 8171, 1, -112>>, <<8172, 8172, 1, -7>>,
      <<8184, 8185, 1, -128>>, <<8186, 8187, 1, -126>>,
      <<8188, 8188, 1, -9>>, <<8486, 8486, 1, -7517>>,
      <<8490, 8490, 1, -8383>>, <<8491, 8491, 1, -8262>>,
      <<8498, 8498, 1, 28>>, <<8544, 8559, 1, 16>>, <<8579, 8579, 1, 1>>,
      <<9398, 9423, 1, 26>>, <<11264, 11311, 1, 48>>, <<11360, 11360, 1, 1>>,
      <<11362, 11362, 1, -10743>>, <<11363, 11363, 1, -3814>>,
      <<11364, 11364, 1, -10727>>, <<11367, 11371, 2, 1>>,
      <<11373, 11373, 1, -10780>>, <<11374, 11374, 1, -10749>>,
      <<11375, 11375, 1, -10783>>, <<11376, 11376, 1, -10782>>,
      <<11378, 11378, 1, 1>>, <<11381, 11381, 1, 1>>,
      <<11390, 11391, 1, -10815>>, <<11392, 11490, 2, 1>>,
      <<11499, 11501, 2, 1>>, <<11506, 11506, 1, 1>>, <<42560, 42604, 2, 1>>,
      <<42624, 42650, 2, 1>>, <<42786, 42798, 2, 1>>, <<42802, 42862, 2, 1>>,
      <<42873, 42875, 2, 1>>, <<42877, 42877, 1, -35332>>,
      <<42878, 42886, 2, 1>>, <<42891, 42891, 1, 1>>,
      <<42893, 42893, 1, -42280>>, <<42896, 42898, 2, 1>>,
      <<42902, 42920, 2, 1>>, <<42922, 42922, 1, -42308>>,
      <<42923, 42923, 1, -42319>>, <<42924, 42924, 1, -42315>>,
      <<42925, 42925, 1, -42305>>, <<42926, 42926, 1, -42308>>,
      <<42928, 42928, 1, -42258>>, <<42929, 42929, 1, -42282>>,
      <<42930, 42930, 1, -42261>>, <<42931, 42931, 1, 928>>,
      <<42932, 42946, 2, 1>>, <<42948, 42948, 1, -48>>,
      <<42949, 42949, 1, -42307>>, <<42950, 42950, 1, -35384>>,
      <<42951, 42953, 2, 1>>, <<42960, 42960, 1, 1>>, <<42966, 42968, 2, 1>>,
      <<42997, 42997, 1, 1>>, <<65313, 65338, 1, 32>>,
      <<66560, 66599, 1, 40>>, <<66736, 66771, 1, 40>>,
      <<66928, 66938, 1, 39>>, <<66940, 66954, 1, 39>>,
      <<66956, 66962, 1, 39>>, <<66964, 66965, 1, 39>>,
      <<68736, 68786, 1, 64>>, <<71840, 71871, 1, 32>>,
      <<93760, 93791, 1, 32>>, <<125184, 125217, 1, 34>>
    >>

\* The characters the search for the context of a capital sigma skips
\* (case-ignorable).  Rows <<first, last>>.
CaseIgnorableTable ==
    <<
      <<39, 39>>, <<46, 46>>, <<58, 58>>, <<94, 94>>, <<96, 96>>,
      <<168, 168>>, <<173, 173>>, <<175, 175>>, <<180, 180>>, <<183, 184>>,
      <<688, 879>>, <<884, 885>>, <<890, 890>>, <<900, 901>>, <<903, 903>>,
      <<1155, 1161>>, <<1369, 1369>>, <<1375, 1375>>, <<1425, 1469>>,
      <<1471, 1471>>, <<1473, 1474>>, <<1476, 1477>>, <<1479, 1479>>,
      <<1524, 1524>>, <<1536, 1541>>, <<1552, 1562>>, <<1564, 1564>>,
      <<1600, 1600>>, <<1611, 1631>>, <<1648, 1648>>, <<1750, 1757>>,
      <<1759, 1768>>, <<1770, 1773>>, <<1807, 1807>>, <<1809, 1809>>,
      <<1840, 1866>>, <<1958, 1968>>, <<2027, 2037>>, <<2042, 2042>>,
      <<2045, 2045>>, <<2070, 2093>>, <<2137, 2139>>, <<2184, 2184>>,
      <<2192, 2193>>, <<2200, 2207>>, <<2249, 2306>>, <<2362, 2362>>,
      <<2364, 2364>>, <<2369, 2376>>, <<2381, 2381>>, <<2385, 2391>>,
      <<2402, 2403>>, <<2417, 2417>>, <<2433, 2433>>, <<2492, 2492>>,
      <<2497, 2500>>, <<2509, 2509>>, <<2530, 2531>>, <<2558, 2558>>,
      <<2561, 2562>>, <<2620, 2620>>, <<2625, 2626>>, <<2631, 2632>>,
      <<2635, 2637>>, <<2641, 2641>>, <<2672, 2673>>, <<2677, 2677>>,
      <<2689, 2690>>, <<2748, 2748>>, <<2753, 2757>>, <<2759, 2760>>,
      <<2765, 2765>>, <<2786, 2787>>, <<2810, 2815>>, <<2817, 2817>>,
      <<2876, 2876>>, <<2879, 2879>>, <<2881, 2884>>, <<2893, 2893>>,
      <<2901, 2902>>, <<2914, 2915>>, <<2946, 2946>>, <<3008, 3008>>,
      <<3021, 3021>>, <<3072, 3072>>, <<3076, 3076>>, <<3132, 3132>>,
      <<3134, 3136>>, <<3142, 3144>>, <<3146, 3149>>, <<3157, 3158>>,
      <<3170, 3171>>, <<3201, 3201>>, <<3260, 3260>>, <<3263, 3263>>,
      <<3270, 3270>>, <<3276, 3277>>, <<3298, 3299>>, <<3328, 3329>>,
      <<3387, 3388>>, <<3393, 3396>>, <<3405, 3405>>, <<3426, 3427>>,
      <<3457, 3457>>, <<3530, 3530>>, <<3538, 3540>>, <<3542, 3542>>,
      <<3633, 3633>>, <<3636, 3642>>, <<3654, 3662>>, <<3761, 3761>>,
      <<3764, 3772>>, <<3782, 3782>>, <<3784, 3789>>, <<3864, 3865>>,
      <<3893, 3893>>, <<3895, 3895>>, <<3897, 3897>>, <<3953, 3966>>,
      <<3968, 3972>>, <<3974, 3975>>, <<3981, 3991>>, <<3993, 4028>>,
      <<4038, 4038>>, <<4141, 4144>>, <<4146, 4151>>, <<4153, 4154>>,
      <<4157, 4158>>, <<4184, 4185>>, <<4190, 4192>>, <<4209, 4212>>,
      <<4226, 4226>>, <<4229, 4230>>, <<4237, 4237>>, <<4253, 4253>>,
      <<4348, 4348>>, <<4957, 4959>>, <<5906, 5908>>, <<5938, 5939>>,
      <<5970, 5971>>, <<6002, 6003>>, <<6068, 6069>>, <<6071, 6077>>,
      <<6086, 6086>>, <<6089, 6099>>, <<6103, 6103>>, <<6109, 6109>>,
      <<6155, 6159>>, <<6211, 6211>>, <<6277, 6278>>, <<6313, 6313>>,
      <<6432, 6434>>, <<6439, 6440>>, <<6450, 6450>>, <<6457, 6459>>,
      <<6679, 6680>>, <<6683, 6683>>, <<6742, 6742>>, <<6744, 6750>>,
      <<6752, 6752>>, <<6754, 6754>>, <<6757, 6764>>, <<6771, 6780>>,
      <<6783, 6783>>, <<6823, 6823>>, <<6832, 6862>>, <<6912, 6915>>,
      <<6964, 6964>>, <<6966, 6970>>, <<6972, 6972>>, <<6978, 6978>>,
      <<7019, 7027>>, <<7040, 7041>>, <<7074, 7077>>, <<7080, 7081>>,
      <<7083, 7085>>, <<7142, 7142>>, <<7144, 7145>>, <<7149, 7149>>,
      <<7151, 7153>>, <<7212, 7219>>, <<7222, 7223>>, <<7288, 7293>>,
      <<7376, 7378>>, <<7380, 7392>>, <<7394, 7400>>, <<7405, 7405>>,
      <<7412, 7412>>, <<7416, 7417>>, <<7468, 7530>>, <<7544, 7544>>,
      <<7579, 7679>>, <<8125, 8125>>, <<8127, 8129>>, <<8141, 8143>>,
      <<8157, 8159>>, <<8173, 8175>>, <<8189, 8190>>, <<8203, 8207>>,
      <<8216, 8217>>, <<8228, 8228>>, <<8231, 8231>>, <<8234, 8238>>,
      <<8288, 8292>>, <<8294, 8303>>, <<8305, 8305>>, <<8319, 8319>>,
      <<8336, 8348>>, <<8400, 8432>>, <<11388, 11389>>, <<11503, 11505>>,
      <<11631, 11631>>, <<11647, 11647>>, <<11744, 11775>>, <<11823, 11823>>,
      <<12293, 12293>>, <<12330, 12333>>, <<12337, 12341>>, <<12347, 12347>>,
      <<12441, 12446>>, <<12540, 12542>>, <<40981, 40981>>, <<42232, 42237>>,
      <<42508, 42508>>, <<42607, 42610>>, <<42612, 42621>>, <<42623, 42623>>,
      <<42652, 42655>>, <<42736, 42737>>, <<42752, 42785>>, <<42864, 42864>>,
      <<42888, 42890>>, <<42994, 42996>>, <<43000, 43001>>, <<43010, 43010>>,
      <<43014, 43014>>, <<43019, 43019>>, <<43045, 43046>>, <<43052, 43052>>,
      <<43204, 43205>>, <<43232, 43249>>, <<43263, 43263>>, <<43302, 43309>>,
      <<43335, 43345>>, <<43392, 43394>>, <<43443, 43443>>, <<43446, 43449>>,
      <<43452, 43453>>, <<43471, 43471>>, <<43493, 43494>>, <<43561, 43566>>,
      <<43569, 43570>>, <<43573, 43574>>, <<43587, 43587>>, <<43596, 43596>>,
      <<43632, 43632>>, <<43644, 43644>>, <<43696, 43696>>, <<43698, 43700>>,
      <<43703, 43704>>, <<43710, 43711>>, <<43713, 43713>>, <<43741, 43741>>,
      <<43756, 43757>>, <<43763, 43764>>, <<43766, 43766>>, <<43867, 43871>>,
      <<43881, 43883>>, <<44005, 44005>>, <<44008, 44008>>, <<44013, 44013>>,
      <<64286, 64286>>, <<64434, 64450>>, <<65024, 65039>>, <<65043, 65043>>,
      <<65056, 65071>>, <<65106, 65106>>, <<65109, 65109>>, <<65279, 65279>>,
      <<65287, 65287>>, <<65294, 65294>>, <<65306, 65306>>, <<65342, 65342>>,
      <<65344, 65344>>, <<65392, 65392>>, <<65438, 65439>>, <<65507, 65507>>,
      <<65529, 65531>>, <<66045, 66045>>, <<66272, 66272>>, <<66422, 66426>>,
      <<67456, 67461>>, <<67463, 67504>>, <<67506, 67514>>, <<68097, 68099>>,
      <<68101, 68102>>, <<68108, 68111>>, <<68152, 68154>>, <<68159, 68159>>,
      <<68325, 68326>>, <<68900, 68903>>, <<69291, 69292>>, <<69446, 69456>>,
      <<69506, 69509>>, <<69633, 69633>>, <<69688, 69702>>, <<69744, 69744>>,
      <<69747, 69748>>, <<69759, 69761>>, <<69811, 69814>>, <<69817, 69818>>,
      <<69821, 69821>>, <<69826, 69826>>, <<69837, 69837>>, <<69888, 69890>>,
      <<69927, 69931>>, <<69933, 69940>>, <<70003, 70003>>, <<70016, 70017>>,
      <<70070, 70078>>, <<70089, 70092>>, <<70095, 70095>>, <<70191, 70193>>,
      <<70196, 70196>>, <<70198, 70199>>, <<70206, 70206>>, <<70367, 70367>>,
      <<70371, 70378>>, <<70400, 70401>>, <<70459, 70460>>, <<70464, 70464>>,
      <<70502, 70508>>, <<70512, 70516>>, <<70712, 70719>>, <<70722, 70724>>,
      <<70726, 70726>>, <<70750, 70750>>, <<70835, 70840>>, <<70842, 70842>>,
      <<70847, 70848>>, <<70850, 70851>>, <<71090, 71093>>, <<71100, 71101>>,
      <<71103, 71104>>, <<71132, 71133>>, <<71219, 71226>>, <<71229, 71229>>,
      <<71231, 71232>>, <<71339, 71339>>, <<71341, 71341>>, <<71344, 71349>>,
      <<71351, 71351>>, <<71453, 71455>>, <<71458, 71461>>, <<71463, 71467>>,
      <<71727, 71735>>, <<71737, 71738>>, <<71995, 71996>>, <<71998, 71998>>,
      <<72003, 72003>>, <<72148, 72151>>, <<72154, 72155>>, <<72160, 72160>>,
      <<72193, 72202>>, <<72243, 72248>>, <<72251, 72254>>, <<72263, 72263>>,
      <<72273, 72278>>, <<72281, 72283>>, <<72330, 72342>>, <<72344, 72345>>,
      <<72752, 72758>>, <<72760, 72765>>, <<72767, 72767>>, <<72850, 72871>>,
      <<72874, 72880>>, <<72882, 72883>>, <<72885, 72886>>, <<73009, 73014>>,
      <<73018, 73018>>, <<73020, 73021>>, <<73023, 73029>>, <<73031, 73031>>,
      <<73104, 73105>>, <<73109, 73109>>, <<73111, 73111>>, <<73459, 73460>>,
      <<78896, 78904>>, <<92912, 92916>>, <<92976, 92982>>, <<92992, 92995>>,
      <<94031, 94031>>, <<94095, 94111>>, <<94176, 94177>>, <<94179, 94180>>,
      <<110576, 110579>>, <<110581, 110587>>, <<110589, 110590>>,
      <<113821, 113822>>, <<113824, 113827>>, <<118528, 118573>>,
      <<118576, 118598>>, <<119143, 119145>>, <<119155, 119170>>,
      <<119173, 119179>>, <<119210, 119213>>, <<119362, 119364>>,
      <<121344, 121398>>, <<121403, 121452>>, <<121461, 121461>>,
      <<121476, 121476>>, <<121499, 121503>>, <<121505, 121519>>,
      <<122880, 122886>>, <<122888, 122904>>, <<122907, 122913>>,
      <<122915, 122916>>, <<122918, 122922>>, <<123184, 123197>>,
      <<123566, 123566>>, <<123628, 123631>>, <<125136, 125142>>,
      <<125252, 125259>>, <<127995, 127999>>, <<917505, 917505>>,
      <<917536, 917631>>, <<917760, 917999>>
    >>

\* The cased characters among those that are not skipped.  Rows
\* <<first, last>>.
CasedTable ==
    <<
      <<65, 90>>, <<97, 122>>, <<170, 170>>, <<181, 181>>, <<186, 186>>,
      <<192, 214>>, <<216, 246>>, <<248, 442>>, <<444, 447>>, <<452, 659>>,
      <<661, 687>>, <<880, 883>>, <<886, 887>>, <<891, 893>>, <<895, 895>>,
      <<902, 902>>, <<904, 906>>, <<908, 908>>, <<910, 929>>, <<931, 1013>>,
      <<1015, 1153>>, <<1162, 1327>>, <<1329, 1366>>, <<1376, 1416>>,
      <<4256, 4293>>, <<4295, 4295>>, <<4301, 4301>>, <<4304, 4346>>,
      <<4349, 4351>>, <<5024, 5109>>, <<5112, 5117>>, <<7296, 7304>>,
      <<7312, 7354>>, <<7357, 7359>>, <<7424, 7467>>, <<7531, 7543>>,
      <<7545, 7578>>, <<7680, 7957>>, <<7960, 7965>>, <<7968, 8005>>,
      <<8008, 8013>>, <<8016, 8023>>, <<8025, 8025>>, <<8027, 8027>>,
      <<8029, 8029>>, <<8031, 8061>>, <<8064, 8116>>, <<8118, 8124>>,
      <<8126, 8126>>, <<8130, 8132>>, <<8134, 8140>>, <<8144, 8147>>,
      <<8150, 8155>>, <<8160, 8172>>, <<8178, 8180>>, <<8182, 8188>>,
      <<8450, 8450>>, <<8455, 8455>>, <<8458, 8467>>, <<8469, 8469>>,
      <<8473, 8477>>, <<8484, 8484>>, <<8486, 8486>>, <<8488, 8488>>,
      <<8490, 8493>>, <<8495, 8500>>, <<8505, 8505>>, <<8508, 8511>>,
      <<8517, 8521>>, <<8526, 8526>>, <<8544, 8575>>, <<8579, 8580>>,
      <<9398, 9449>>, <<11264, 11387>>, <<11390, 11492>>, <<11499, 11502>>,
      <<11506, 11507>>, <<11520, 11557>>, <<11559, 11559>>, <<11565, 11565>>,
      <<42560, 42605>>, <<42624, 42651>>, <<42786, 42863>>, <<42865, 42887>>,
      <<42891, 42894>>, <<42896, 42954>>, <<42960, 42961>>, <<42963, 42963>>,
      <<42965, 42969>>, <<42997, 42998>>, <<43002, 43002>>, <<43824, 43866>>,
      <<43872, 43880>>, <<43888, 43967>>, <<64256, 64262>>, <<64275, 64279>>,
      <<65313, 65338>>, <<65345, 65370>>, <<66560, 66639>>, <<66736, 66771>>,
      <<66776, 66811>>, <<66928, 66938>>, <<66940, 66954>>, <<66956, 66962>>,
      <<66964, 66965>>, <<66967, 66977>>, <<66979, 66993>>, <<66995, 67001>>,
      <<67003, 67004>>, <<68736, 68786>>, <<68800, 68850>>, <<71840, 71903>>,
      <<93760, 93823>>, <<119808, 119892>>, <<119894, 119964>>,
      <<119966, 119967>>, <<119970, 119970>>, <<119973, 119974>>,
      <<119977, 119980>>, <<119982, 119993>>, <<119995, 119995>>,
      <<119997, 120003>>, <<120005, 120069>>, <<120071, 120074>>,
      <<120077, 120084>>, <<120086, 120092>>, <<120094, 120121>>,
      <<120123, 120126>>, <<120128, 120132>>, <<120134, 120134>>,
      <<120138, 120144>>, <<120146, 120485>>, <<120488, 120512>>,
      <<120514, 120538>>, <<120540, 120570>>, <<120572, 120596>>,
      <<120598, 120628>>, <<120630, 120654>>, <<120656, 120686>>,
      <<120688, 120712>>, <<120714, 120744>>, <<120746, 120770>>,
      <<120772, 120779>>, <<122624, 122633>>, <<122635, 122654>>,
      <<125184, 125251>>, <<127280, 127305>>, <<127312, 127337>>,
      <<127344, 127369>>
    >>

InRows(c, rows) ==
    \E n \in 1..Len(rows) : rows[n][1] <= c /\ c <= rows[n][2]

\* The code point chr(c).lower() has when it is one code point.
LowerCode(c) ==
    IF c < 192 THEN (IF c >= 65 /\ c <= 90 THEN c + 32 ELSE c)
    ELSE IF c >= 1024 /\ c <= 1119
    THEN (IF c <= 1039 THEN c + 80 ELSE IF c <= 1071 THEN c + 32 ELSE c)
    ELSE LET hit == {n \in 1..Len(LowerTable) :
                        /\ LowerTable[n][1] <= c
                        /\ c <= LowerTable[n][2]
                        /\ (c - LowerTable[n][1]) % LowerTable[n][3] = 0}
         IN IF hit = {} THEN c
            ELSE c + LowerTable[CHOOSE n \in hit : TRUE][4]

\* chr(c).lower(), a str: "İ" (304) gives "i" and a combining dot, every
\* other character one character.
LowerChar(c) == IF c = 304 THEN <<105, 775>> ELSE <<LowerCode(c)>>

\* The capital sigma at s[k] ends a word: the nearest character before it
\* that is not skipped is cased, and the nearest one after it is not.
FinalSigma(s, k) ==
    LET before == {j \in 1..(k - 1) : ~InRows(s[j], CaseIgnorableTable)}
        after == {j \in (k + 1)..Len(s) : ~InRows(s[j], CaseIgnorableTable)}
    IN /\ before # {}
       /\ InRows(s[CHOOSE j \in before : \A m \in before : m <= j], CasedTable)
       /\ \/ after = {}
          \/ ~InRows(s[CHOOSE j \in after : \A m \in after : j <= m],
                     CasedTable)

\* s.lower(): every character lowered, a capital sigma (931) by its place
\* in the word.
Lower(s) ==
    Join([k \in 1..Len(s) |->
             IF s[k] = 931
             THEN (IF FinalSigma(s, k) THEN <<962>> ELSE <<963>>)
             ELSE LowerChar(s[k])],
         <<>>)

\* s.find(old): the first index (1-based) where old occurs in s, 0 if none.
FindFirst(s, old) ==
    LET hits == {k \in 1..(Len(s) - Len(old) + 1) :
                    SubSeq(s, k, k + Len(old) - 1) = old}
    IN IF hits = {} THEN 0 ELSE CHOOSE k \in hits : \A m \in hits : k <= m

\* s.replace(old, new, 1)
ReplaceFirst(s, old, new) ==
    LET k == FindFirst(s, old)
    IN IF k = 0 THEN s
       ELSE SubSeq(s, 1, k - 1) \o new \o SubSeq(s, k + Len(old), Len(s))

(***************************************************************************)
(* Literals of the program.                                                *)
(***************************************************************************)
\* '#'
Hash == <<35>>
\* "вывод", the argument of startswith on line 126
KeywordLower == <<1074, 1099, 1074, 1086, 1076>>
\* "Вывод", the heading assigned on line 128
ConclusionLabel == <<1042, 1099, 1074, 1086, 1076>>
\* "вывод:", the argument of replace on line 179
LabelPrefix == <<1074, 1099, 1074, 1086, 1076, 58>>

(***************************************************************************)
(* The texts generate_raw_text may return: every text of at most MaxLines  *)
(* lines drawn from LineChoices, and the longer scenarios.                 *)
(***************************************************************************)
LnBlank == <<32>>                                              \* " "
LnHash == <<35>>                                               \* "#"
LnT == <<32, 35, 32, 84, 32>>                                  \* " # T "
LnS == <<35, 83>>                                              \* "#S"
LnUpper == <<35, 1042, 1067, 1042, 1054, 1044, 58>>            \* "#ВЫВОД:"
LnLower == <<32, 35, 32, 1074, 1099, 1074, 1086, 1076, 32, 116>>
                                                               \* " # вывод t"
LnC == <<9, 1074, 1099, 1074, 1086, 1076, 58, 32, 99, 32>>     \* "\tвывод: c "
LnD == <<98, 35, 1074, 1099, 1074, 1086, 1076, 58, 32, 100>>   \* "b#вывод: d"

LineChoices == {LnBlank, LnHash, LnT, LnS, LnUpper, LnLower, LnC, LnD}

\* The end-to-end scenario: six lines.
ScenarioLines ==
    << <<35, 32, 1057, 1086, 1082, 1088, 1086, 1074, 1080, 1097, 1072, 32,
         1084, 1086, 1088, 1103>>,                            \* "# Сокровища моря"
       <<35, 32, 1053, 1072, 1095, 1072, 1083, 1086>>,        \* "# Начало"
       <<1050, 1086, 1088, 1072, 1073, 1083, 1100, 32, 1087, 1083, 1099, 1083,
         32, 1087, 1086, 32, 1074, 1086, 1083, 1085, 1072, 1084, 46>>,
                                                              \* "Корабль плыл по волнам."
       <<1050, 1086, 1084, 1072, 1085, 1076, 1072, 32, 1080, 1089, 1082, 1072,
         1083, 1072, 32, 1087, 1088, 1080, 1082, 1083, 1102, 1095, 1077, 1085,
         1080, 1103, 46>>,                                    \* "Команда искала приключения."
       <<35, 32, 1042, 1099, 1074, 1086, 1076>>,              \* "# Вывод"
       <<1042, 1099, 1074, 1086, 1076, 58, 32, 1055, 1083, 1072, 1074, 1072,
         1085, 1080, 1077, 32, 1079, 1072, 1074, 1077, 1088, 1096, 1080, 1083,
         1086, 1089, 1100, 32, 1091, 1089, 1087, 1077, 1093, 1086, 1084, 46>> >>
                                            \* "Вывод: Плавание завершилось успехом."

ScenarioText == Join(ScenarioLines, <<10>>)

\* Longer texts: two sections; two conclusions; a blank line inside a block;
\* lines before a first marker line that matches the keyword; a conclusion
\* followed by a section; a section followed by a heading without text.
Scenarios ==
    { ScenarioLines,
      <<LnT, LnS, LnC, LnT, LnD>>,
      <<LnT, LnUpper, LnC, LnLower, LnD>>,
      <<LnT, LnS, LnC, LnBlank, LnD>>,
      <<LnC, LnLower, LnC, LnS, LnD>>,
      <<LnT, LnUpper, LnC, LnS, LnD>>,
      <<LnT, LnS, LnC, LnHash, LnD>> }

RawTexts ==
    { Join(ls, <<10>>) :
        ls \in UNION { [1..n -> LineChoices] : n \in 0..MaxLines } \cup Scenarios }

(***************************************************************************)
(* parse_input                                                             *)
(***************************************************************************)
\* line 34: str.split() with no argument, the words between runs of
\* whitespace
Words(s) ==
    LET IsStart(k) == ~IsSpace(s[k]) /\ (k = 1 \/ IsSpace(s[k - 1]))
        starts == SelectSeq([k \in 1..Len(s) |-> k], IsStart)
        EndOf(k) == CHOOSE e \in k..Len(s) :
                        /\ \A m \in k..e : ~IsSpace(s[m])
                        /\ e = Len(s) \/ IsSpace(s[e + 1])
    IN [n \in 1..Len(starts) |-> SubSeq(s, starts[n], EndOf(starts[n]))]

\* line 35: the number of words a prompt must have
NumWords == 5

\* The values of --prompt: " a \u2003b\tc d e " with five words, and "",
\* "abcde", "a b c d" and "a b c d e f" with none, one, four and six.
PromptFive == <<32, 97, 32, 8195, 98, 9, 99, 32, 100, 32, 101, 32>>
PromptNone == <<>>
PromptOne == <<97, 98, 99, 100, 101>>
PromptFour == <<97, 32, 98, 32, 99, 32, 100>>
PromptSix == <<97, 32, 98, 32, 99, 32, 100, 32, 101, 32, 102>>
Prompts == {PromptFive, PromptNone, PromptOne, PromptFour, PromptSix}

(***************************************************************************)
(* clean_and_parse_qwen_output                                             *)
(***************************************************************************)
\* line.strip().startswith('#')
IsMarker(line) == StartsWith(Strip(line), Hash)

\* lines 94-99: the lines from the first marker line on, [] if there is none.
CutBeforeFirstHash(ls) ==
    LET hits == {k \in 1..Len(ls) : IsMarker(ls[k])}
    IN IF hits = {} THEN <<>>
       ELSE SubSeq(ls, CHOOSE k \in hits : \A m \in hits : k <= m, Len(ls))

\* Faulty variants of Flush, each one slip away from lines 112-119: the
\* properties of the parser are sensitive to each of them.
\* - the conclusion is kept once set (first wins)
FlushFirstWins(p, h2, p_lines, conc) ==
    IF Truthy(h2) /\ NonEmpty(p_lines)
    THEN IF conc
         THEN IF p.conclusion = <<>>
              THEN [p EXCEPT !.conclusion = Strip(Join(p_lines, <<32>>))]
              ELSE p
         ELSE [p EXCEPT !.sections =
                  Append(@, [h2 |-> h2, p |-> Strip(Join(p_lines, <<32>>))])]
    ELSE p

\* - the block is saved also when it has no body line
FlushWithoutBodyCheck(p, h2, p_lines, conc) ==
    IF Truthy(h2)
    THEN IF conc
         THEN [p EXCEPT !.conclusion = Strip(Join(p_lines, <<32>>))]
         ELSE [p EXCEPT !.sections =
                  Append(@, [h2 |-> h2, p |-> Strip(Join(p_lines, <<32>>))])]
    ELSE p

\* - the body lines are joined with no separator
FlushJoinNoSpace(p, h2, p_lines, conc) ==
    IF Truthy(h2) /\ NonEmpty(p_lines)
    THEN IF conc
         THEN [p EXCEPT !.conclusion = Strip(Join(p_lines, <<>>))]
         ELSE [p EXCEPT !.sections =
                  Append(@, [h2 |-> h2, p |-> Strip(Join(p_lines, <<>>))])]
    ELSE p

\* - the section is inserted at the head of the list
FlushPrepend(p, h2, p_lines, conc) ==
    IF Truthy(h2) /\ NonEmpty(p_lines)
    THEN IF conc
         THEN [p EXCEPT !.conclusion = Strip(Join(p_lines, <<32>>))]
         ELSE [p EXCEPT !.sections =
                  <<[h2 |-> h2, p |-> Strip(Join(p_lines, <<32>>))]>> \o @]
    ELSE p

\* lines 112-119 and 138-145: the dict after saving the block in progress.
Flush(p, h2, p_lines, conc) ==
    IF Truthy(h2) /\ NonEmpty(p_lines)
    THEN IF conc
         THEN [p EXCEPT !.conclusion = Strip(Join(p_lines, <<32>>))]
         ELSE [p EXCEPT !.sections =
                  Append(@, [h2 |-> h2, p |-> Strip(Join(p_lines, <<32>>))])]
    ELSE p

\* line 123: header = line[1:].strip(), of a stripped marker line
Header(line) == Strip(Tail(line))

\* line 126
IsConclusionHeader(header) == StartsWith(Lower(header), KeywordLower)

\* A faulty variant of InitialParsed: a default title "?" in place of ''.
InitialParsedWithTitle == [title |-> <<63>>, sections |-> <<>>, conclusion |-> <<>>]

\* lines 88-92: the dict parsed as constructed
InitialParsed == [title |-> <<>>, sections |-> <<>>, conclusion |-> <<>>]

Init ==
    /\ prompt \in Prompts
    /\ pc = "start"
    /\ keywords = None
    /\ stdout = <<>>
    /\ out_file = NoFile
    /\ raw_text = <<>>
    /\ lines = <<>>
    /\ i = 1
    /\ parsed = InitialParsed
    /\ current_h2 = None
    /\ current_p_lines = <<>>
    /\ in_conclusion = FALSE
    /\ html = <<>>

\* A faulty variant of ValidCount: a sixth word is let through.
ValidCountAtLeast(words) == Len(words) >= NumWords

\* line 35: the negation of the test that raises
ValidCount(words) == Len(words) = NumWords

\* lines 31-44 and 192-193: parse_input returns
ParseInputAccepts ==
    /\ pc = "start"
    /\ ValidCount(Words(Strip(prompt)))
    /\ keywords' = Join(Words(Strip(prompt)), <<32>>)
    /\ pc' = "generate"
    /\ UNCHANGED <<prompt, stdout, out_file, raw_text, lines, i, parsed,
                   current_h2, current_p_lines, in_conclusion, html>>

\* lines 35-39 and 194-196: parse_input raises, main prints and returns
ParseInputRejects ==
    /\ pc = "start"
    /\ ~ValidCount(Words(Strip(prompt)))
    /\ stdout' = Append(stdout, [msg |-> "error",
                                 arg |-> Len(Words(Strip(prompt)))])
    /\ pc' = "rejected"
    /\ UNCHANGED <<prompt, keywords, out_file, raw_text, lines, i, parsed,
                   current_h2, current_p_lines, in_conclusion, html>>

\* lines 47-79 and 198: the model answers with some text
GenerateRawText ==
    /\ pc = "generate"
    /\ stdout' = Append(stdout, [msg |-> "generating", arg |-> keywords])
    /\ raw_text' \in RawTexts
    /\ pc' = "parse"
    /\ UNCHANGED <<prompt, keywords, out_file, lines, i, parsed, current_h2,
                   current_p_lines, in_conclusion, html>>

\* A faulty variant of GenerateRawTextFails: main calls the function again.
GenerateRawTextRetries ==
    /\ pc = "generate"
    /\ stdout' = Append(stdout, [msg |-> "generating", arg |-> keywords])
    /\ pc' = "generate"
    /\ UNCHANGED <<prompt, keywords, out_file, raw_text, lines, i, parsed,
                   current_h2, current_p_lines, in_conclusion, html>>

\* lines 48-68 and 198: loading or running the model raises after the
\* print of line 48; main() has no handler, the exception ends the run
GenerateRawTextFails ==
    /\ pc = "generate"
    /\ stdout' = Append(stdout, [msg |-> "generating", arg |-> keywords])
    /\ pc' = "failed"
    /\ UNCHANGED <<prompt, keywords, out_file, raw_text, lines, i, parsed,
                   current_h2, current_p_lines, in_conclusion, html>>

\* lines 87-103
ParseStart ==
    /\ pc = "parse"
    /\ lines' = CutBeforeFirstHash(SplitLines(Strip(raw_text)))
    /\ parsed' = InitialParsed
    /\ current_h2' = None
    /\ current_p_lines' = <<>>
    /\ in_conclusion' = FALSE
    /\ i' = 1
    /\ pc' = "loop"
    /\ UNCHANGED <<prompt, keywords, stdout, out_file, raw_text, html>>

\* lines 105-108: a blank line
BlankLine ==
    /\ pc = "loop"
    /\ i <= Len(lines)
    /\ Strip(lines[i]) = <<>>
    /\ i' = i + 1
    /\ UNCHANGED <<prompt, keywords, stdout, out_file, pc, raw_text, lines,
                   parsed, current_h2, current_p_lines, in_conclusion, html>>

\* A faulty variant of NewHeading: every marker line also sets the title.
NewHeadingTitleOverwritten(p, h2, conc, header) ==
    IF ~Truthy(p.title)
    THEN [title |-> header, h2 |-> h2, conc |-> conc]
    ELSE IF IsConclusionHeader(header)
    THEN [title |-> header, h2 |-> ConclusionLabel, conc |-> TRUE]
    ELSE [title |-> header, h2 |-> header, conc |-> FALSE]

\* A faulty variant of NewHeading: a conclusion heading sets the flag and
\* leaves the heading as it was.
NewHeadingKeepsH2(p, h2, conc, header) ==
    IF ~Truthy(p.title)
    THEN [title |-> header, h2 |-> h2, conc |-> conc]
    ELSE IF IsConclusionHeader(header)
    THEN [title |-> p.title, h2 |-> h2, conc |-> TRUE]
    ELSE [title |-> p.title, h2 |-> header, conc |-> FALSE]

\* A faulty variant of NewHeading: the title line also opens a block.
NewHeadingTitleAsSection(p, h2, conc, header) ==
    IF ~Truthy(p.title)
    THEN [title |-> header, h2 |-> header, conc |-> FALSE]
    ELSE IF IsConclusionHeader(header)
    THEN [title |-> p.title, h2 |-> ConclusionLabel, conc |-> TRUE]
    ELSE [title |-> p.title, h2 |-> header, conc |-> FALSE]

\* lines 123-131: the title, heading and flag after a marker line with text
\* `header`, given the dict after the save and the heading and flag before.
NewHeading(p, h2, conc, header) ==
    IF ~Truthy(p.title)
    THEN [title |-> header, h2 |-> h2, conc |-> conc]
    ELSE IF IsConclusionHeader(header)
    THEN [title |-> p.title, h2 |-> ConclusionLabel, conc |-> TRUE]
    ELSE [title |-> p.title, h2 |-> header, conc |-> FALSE]

\* A faulty variant of MarkerLine: the new heading and flag are applied
\* before the lines collected so far are saved.
MarkerLineResetFirst ==
    /\ pc = "loop"
    /\ i <= Len(lines)
    /\ LET line == Strip(lines[i])
           new == NewHeading(parsed, current_h2, in_conclusion, Header(line))
           saved == Flush([parsed EXCEPT !.title = new.title], new.h2,
                          current_p_lines, new.conc)
       IN /\ line # <<>>
          /\ StartsWith(line, Hash)
          /\ current_p_lines' =
                IF Truthy(new.h2) /\ NonEmpty(current_p_lines)
                THEN <<>> ELSE current_p_lines
          /\ parsed' = saved
          /\ current_h2' = new.h2
          /\ in_conclusion' = new.conc
    /\ i' = i + 1
    /\ UNCHANGED <<prompt, keywords, stdout, out_file, pc, raw_text, lines,
                   html>>

\* lines 110-131: a marker line
MarkerLine ==
    /\ pc = "loop"
    /\ i <= Len(lines)
    /\ LET line == Strip(lines[i])
           saved == Flush(parsed, current_h2, current_p_lines, in_conclusion)
           new == NewHeading(saved, current_h2, in_conclusion, Header(line))
       IN /\ line # <<>>
          /\ StartsWith(line, Hash)
          /\ current_p_lines' =
                IF Truthy(current_h2) /\ NonEmpty(current_p_lines)
                THEN <<>> ELSE current_p_lines
          /\ parsed' = [saved EXCEPT !.title = new.title]
          /\ current_h2' = new.h2
          /\ in_conclusion' = new.conc
    /\ i' = i + 1
    /\ UNCHANGED <<prompt, keywords, stdout, out_file, pc, raw_text, lines,
                   html>>

\* A faulty variant of BodyLine: the line is collected under any heading
\* that is not None, the empty one too.
BodyLineIfNotNone ==
    /\ pc = "loop"
    /\ i <= Len(lines)
    /\ LET line == Strip(lines[i])
       IN /\ line # <<>>
          /\ ~StartsWith(line, Hash)
          /\ current_p_lines' =
                IF current_h2 # None THEN Append(current_p_lines, line)
                ELSE current_p_lines
    /\ i' = i + 1
    /\ UNCHANGED <<prompt, keywords, stdout, out_file, pc, raw_text, lines,
                   parsed, current_h2, in_conclusion, html>>

\* lines 132-135: a paragraph line
BodyLine ==
    /\ pc = "loop"
    /\ i <= Len(lines)
    /\ LET line == Strip(lines[i])
       IN /\ line # <<>>
          /\ ~StartsWith(line, Hash)
          /\ current_p_lines' =
                IF Truthy(current_h2) THEN Append(current_p_lines, line)
                ELSE current_p_lines
    /\ i' = i + 1
    /\ UNCHANGED <<prompt, keywords, stdout, out_file, pc, raw_text, lines,
                   parsed, current_h2, in_conclusion, html>>

\* lines 137-147: the last block, and the return
ParseEnd ==
    /\ pc = "loop"
    /\ i > Len(lines)
    /\ parsed' = Flush(parsed, current_h2, current_p_lines, in_conclusion)
    /\ pc' = "parsed"
    /\ UNCHANGED <<prompt, keywords, stdout, out_file, raw_text, lines, i,
                   current_h2, current_p_lines, in_conclusion, html>>

(***************************************************************************)
(* generate_html                                                           *)
(***************************************************************************)
\* line 179: parsed['conclusion'].replace("вывод:", "", 1).strip()
ConclusionText(conclusion) == Strip(ReplaceFirst(conclusion, LabelPrefix, <<>>))

\* A faulty variant of SectionsHtml: the sections in reverse order.
SectionsHtmlReversed(sections) ==
    [k \in 1..(2 * Len(sections)) |->
        IF k % 2 = 1
        THEN [tag |-> "h2",
              text |-> sections[Len(sections) + 1 - (k + 1) \div 2].h2]
        ELSE [tag |-> "p",
              text |-> sections[Len(sections) + 1 - k \div 2].p]]

\* lines 172-174: one <h2> and one <p> per section, in order
SectionsHtml(sections) ==
    [k \in 1..(2 * Len(sections)) |->
        IF k % 2 = 1 THEN [tag |-> "h2", text |-> sections[(k + 1) \div 2].h2]
        ELSE [tag |-> "p", text |-> sections[k \div 2].p]]

\* A faulty variant of ConclusionHtml: the container without the test of
\* line 176.
ConclusionHtmlAlways(conclusion) ==
    << [tag |-> "div class='conclusion'", text |-> <<>>],
       [tag |-> "h2", text |-> ConclusionLabel],
       [tag |-> "p", text |-> ConclusionText(conclusion)],
       [tag |-> "/div", text |-> <<>>] >>

\* lines 176-181: the conclusion container
ConclusionHtml(conclusion) ==
    IF Truthy(conclusion)
    THEN << [tag |-> "div class='conclusion'", text |-> <<>>],
            [tag |-> "h2", text |-> ConclusionLabel],
            [tag |-> "p", text |-> ConclusionText(conclusion)],
            [tag |-> "/div", text |-> <<>>] >>
    ELSE <<>>

\* lines 154-185: the elements of the document, the fixed shell aside
Document(p) ==
    << [tag |-> "title", text |-> p.title],
       [tag |-> "h1", text |-> p.title] >>
    \o SectionsHtml(p.sections)
    \o ConclusionHtml(p.conclusion)

\* lines 150-188 and 200: the document is built, written and reported
GenerateHtml ==
    /\ pc = "parsed"
    /\ html' = Document(parsed)
    /\ out_file' = File(html', TRUE)
    /\ stdout' = Append(stdout, [msg |-> "saved", arg |-> <<>>])
    /\ pc' = "done"
    /\ UNCHANGED <<prompt, keywords, raw_text, lines, i, parsed, current_h2,
                   current_p_lines, in_conclusion>>

\* lines 150-187 and 200: write_text raises, nothing is printed, and
\* main() has no handler.  Path.write_text opens the file for writing and
\* then writes: when the open fails (no directory, no permission) no file
\* is made; when the write fails after it (disk full, a character utf-8
\* cannot encode) the file holds a proper prefix of the document, down to
\* nothing: its first k elements in full, a cut element not counted.
GenerateHtmlWriteFails ==
    /\ pc = "parsed"
    /\ html' = Document(parsed)
    /\ \/ out_file' = out_file
       \/ \E k \in 0..Len(Document(parsed)) :
             out_file' = File(SubSeq(Document(parsed), 1, k), FALSE)
    /\ pc' = "failed"
    /\ UNCHANGED <<prompt, keywords, stdout, raw_text, lines, i, parsed,
                   current_h2, current_p_lines, in_conclusion>>

Next ==
    \/ ParseInputAccepts
    \/ ParseInputRejects
    \/ GenerateRawText
    \/ GenerateRawTextFails
    \/ ParseStart
    \/ BlankLine
    \/ MarkerLine
    \/ BodyLine
    \/ ParseEnd
    \/ GenerateHtml
    \/ GenerateHtmlWriteFails

Spec == Init /\ [][Next]_vars

(***************************************************************************)
(* The source text as the claims describe it: its non-blank lines,         *)
(* trimmed, the marker lines among them, and the block under each.         *)
(***************************************************************************)
IsText(l) == l # <<>>

\* The non-blank lines of the text, each trimmed, in source order.
SrcLines(text) ==
    LET ls == SplitLines(Strip(text))
    IN SelectSeq([k \in 1..Len(ls) |-> Strip(ls[k])], IsText)

\* The blocks of the text, one per marker line, in source order:
\*   at    the index of the marker line among the non-blank lines,
\*   head  its text, the '#' and the surrounding whitespace removed,
\*   body  the lines between it and the next marker line or the end,
\*   rest  the number of non-blank lines after the next marker line
\*         (-1 when the block is the last one).
BlocksOf(text) ==
    LET src == SrcLines(text)
        marks == {k \in 1..Len(src) : src[k][1] = 35}
        nth(n) == IF n > Cardinality(marks) THEN Len(src) + 1
                  ELSE CHOOSE k \in marks : Cardinality({m \in marks : m < k}) = n - 1
    IN [n \in 1..Cardinality(marks) |->
          LET this == nth(n)
              next == nth(n + 1)
          IN [at |-> this,
              head |-> Strip(Tail(src[this])),
              body |-> SubSeq(src, this + 1, next - 1),
              rest |-> Len(src) - next]]

Blocks == BlocksOf(raw_text)

\* The body lines joined by single spaces.
JoinedBody(b) == Join(b.body, <<32>>)

\* "ВЫВОД"
KeywordUpper == <<1042, 1067, 1042, 1054, 1044>>

\* The text starts, ignoring case, with "вывод".
MatchesKeyword(text) ==
    /\ Len(text) >= Len(KeywordLower)
    /\ \A k \in 1..Len(KeywordLower) :
          text[k] = KeywordLower[k] \/ text[k] = KeywordUpper[k]

\* The number of non-blank lines the loop has still to handle.
Remaining == Cardinality({k \in i..Len(lines) : Strip(lines[k]) # <<>>})

\* The block b has been saved: the parser has handled the next marker line,
\* or has left the loop.
Saved(b) ==
    /\ pc # "parse"
    /\ Remaining <= b.rest \/ pc \in {"parsed", "done", "failed"}

\* The parser has not gone past the marker line that ends block b.
NotPast(b) == pc = "parse" \/ Remaining >= b.rest

\* The block whose marker line gave the title: the first one with text
\* (0 if there is none).
TitleBlock(B) ==
    LET named == {n \in 1..Len(B) : B[n].head # <<>>}
    IN IF named = {} THEN 0 ELSE CHOOSE n \in named : \A m \in named : n <= m

\* The text of the paragraph of the conclusion container of the document.
ConclusionParagraph(h) == h[Len(h) - 1].text

HasConclusionContainer(h) == Len(h) >= 4 /\ h[Len(h)].tag = "/div"

(***************************************************************************)
(* C1                                                                      *)
(***************************************************************************)
\* "Сокровища моря"
ScenarioTitle ==
    <<1057, 1086, 1082, 1088, 1086, 1074, 1080, 1097, 1072, 32, 1084, 1086,
      1088, 1103>>
\* "Начало"
ScenarioHeading == <<1053, 1072, 1095, 1072, 1083, 1086>>
\* "Корабль плыл по волнам. Команда искала приключения."
ScenarioBody ==
    <<1050, 1086, 1088, 1072, 1073, 1083, 1100, 32, 1087, 1083, 1099, 1083, 32,
      1087, 1086, 32, 1074, 1086, 1083, 1085, 1072, 1084, 46, 32, 1050, 1086,
      1084, 1072, 1085, 1076, 1072, 32, 1080, 1089, 1082, 1072, 1083, 1072, 32,
      1087, 1088, 1080, 1082, 1083, 1102, 1095, 1077, 1085, 1080, 1103, 46>>
\* "Вывод: Плавание завершилось успехом."
ScenarioConclusion ==
    <<1042, 1099, 1074, 1086, 1076, 58, 32, 1055, 1083, 1072, 1074, 1072, 1085,
      1080, 1077, 32, 1079, 1072, 1074, 1077, 1088, 1096, 1080, 1083, 1086,
      1089, 1100, 32, 1091, 1089, 1087, 1077, 1093, 1086, 1084, 46>>
\* "Плавание завершилось успехом."
ScenarioParagraph ==
    <<1055, 1083, 1072, 1074, 1072, 1085, 1080, 1077, 32, 1079, 1072, 1074,
      1077, 1088, 1096, 1080, 1083, 1086, 1089, 1100, 32, 1091, 1089, 1087,
      1077, 1093, 1086, 1084, 46>>

\* The parse half of the scenario: the dict returned for the six lines.
ScenarioParsed ==
    (pc \in {"parsed", "done"} /\ raw_text = ScenarioText) =>
        parsed = [title |-> ScenarioTitle,
                  sections |-> << [h2 |-> ScenarioHeading, p |-> ScenarioBody] >>,
                  conclusion |-> ScenarioConclusion]

\* C1: for the six-line scenario text the parser returns the title
\* "Сокровища моря", the one section "Начало" with the two body lines joined,
\* and the conclusion "Вывод: Плавание завершилось успехом."; and the document
\* rendered from it has the conclusion paragraph "Плавание завершилось успехом.".
C1_EndToEnd ==
    (pc = "done" /\ raw_text = ScenarioText) =>
        /\ parsed = [title |-> ScenarioTitle,
                     sections |-> << [h2 |-> ScenarioHeading, p |-> ScenarioBody] >>,
                     conclusion |-> ScenarioConclusion]
        /\ HasConclusionContainer(html)
        /\ ConclusionParagraph(html) = ScenarioParagraph

(***************************************************************************)
(* C2                                                                      *)
(***************************************************************************)
\* C2: when the first non-blank line of the text is a marker line, the title
\* returned is that line's text, the '#' and the surrounding whitespace
\* removed, whatever follows (also when that text is empty).
C2_TitleIsFirstLine ==
    pc \in {"parsed", "done"} =>
        LET B == Blocks
        IN (B # <<>> /\ B[1].at = 1) => parsed.title = B[1].head

(***************************************************************************)
(* C3                                                                      *)
(***************************************************************************)
\* The conclusion with "вывод:" removed only at its very start, then trimmed.
WithoutLeadingLabel(conclusion) ==
    IF Len(conclusion) >= Len(LabelPrefix)
       /\ SubSeq(conclusion, 1, Len(LabelPrefix)) = LabelPrefix
    THEN Strip(SubSeq(conclusion, Len(LabelPrefix) + 1, Len(conclusion)))
    ELSE Strip(conclusion)

\* C3: for a non-empty conclusion the conclusion paragraph is the conclusion
\* with "вывод:" removed only when it is at the very start, then trimmed; a
\* conclusion with "вывод:" only in the middle is emitted unchanged.
C3_LabelStrippedAtStartOnly ==
    (pc = "done" /\ parsed.conclusion # <<>>) =>
        /\ HasConclusionContainer(html)
        /\ ConclusionParagraph(html) = WithoutLeadingLabel(parsed.conclusion)

(***************************************************************************)
(* C4                                                                      *)
(***************************************************************************)
\* The blocks, other than the first marker line's, whose heading matches the
\* keyword and that have at least one body line.
ConclusionBlocks(B) ==
    {n \in 2..Len(B) : MatchesKeyword(B[n].head) /\ B[n].body # <<>>}

\* The blocks, other than the first marker line's, whose heading does not
\* match the keyword and that have at least one body line.
OrdinaryBlocks(B) ==
    {n \in 2..Len(B) : ~MatchesKeyword(B[n].head) /\ B[n].body # <<>>}

\* C4: once the block of a marker line, other than the first marker line,
\* whose text starts (ignoring case) with "вывод" and that has a body is saved,
\* conclusion holds its joined body (until a later such block is saved), and
\* sections holds no entry for it: at most one entry per saved ordinary block.
C4_ConclusionRouting ==
    LET B == Blocks
        done == {n \in ConclusionBlocks(B) : Saved(B[n])}
    IN /\ \A n \in done :
             (\A m \in done : m <= n) => parsed.conclusion = JoinedBody(B[n])
       /\ Len(parsed.sections) <=
             Cardinality({n \in OrdinaryBlocks(B) : Saved(B[n])})

(***************************************************************************)
(* C5                                                                      *)
(***************************************************************************)
\* The blocks after the title line whose heading matches the keyword.
ConclusionHeadings(B) ==
    {n \in 1..Len(B) : TitleBlock(B) > 0 /\ n > TitleBlock(B)
                       /\ MatchesKeyword(B[n].head)}

\* C5 as stated: with two or more conclusion headings after the title, the
\* conclusion returned is the body of the last of them.
C5_LastHeadingWins ==
    pc \in {"parsed", "done"} =>
        LET B == Blocks
            heads == ConclusionHeadings(B)
        IN Cardinality(heads) >= 2 =>
              parsed.conclusion =
                  JoinedBody(B[CHOOSE n \in heads : \A m \in heads : m <= n])

\* C5 as amended: with two or more conclusion headings after the title, the
\* conclusion returned is the body of the last of them that has a body line
\* (empty when none has); no earlier body is kept or merged into it.
C5_LastBlockWins ==
    pc \in {"parsed", "done"} =>
        LET B == Blocks
            heads == ConclusionHeadings(B)
            full == {n \in heads : B[n].body # <<>>}
        IN Cardinality(heads) >= 2 =>
              parsed.conclusion =
                  IF full = {} THEN <<>>
                  ELSE JoinedBody(B[CHOOSE n \in full : \A m \in full : m <= n])

\* Two conclusion headings with different bodies have been parsed, and the
\* conclusion is the body of the later one.
C5_Witness ==
    /\ pc = "parsed"
    /\ LET B == Blocks
       IN \E k, m \in ConclusionHeadings(B) :
             /\ k < m
             /\ B[k].body # <<>>
             /\ B[m].body # <<>>
             /\ B[k].body # B[m].body
             /\ parsed.conclusion = JoinedBody(B[m])

(***************************************************************************)
(* C6                                                                      *)
(***************************************************************************)
\* No line of the text, trimmed, starts with '#'.
NoMarker(text) ==
    LET ls == SplitLines(text)
    IN \A k \in 1..Len(ls) : Strip(ls[k]) = <<>> \/ Strip(ls[k])[1] # 35

\* C6: a text with no marker line yields the all-empty document.
C6_NoMarkerEmptyDocument ==
    (pc \in {"parsed", "done"} /\ NoMarker(raw_text)) =>
        /\ parsed.title = <<>>
        /\ parsed.sections = <<>>
        /\ parsed.conclusion = <<>>

\* A text of several lines, one with a '#' inside it, none a marker line, has
\* been parsed.
C6_Witness ==
    /\ pc = "parsed"
    /\ NoMarker(raw_text)
    /\ LET src == SrcLines(raw_text)
       IN /\ Len(src) >= 2
          /\ \E k \in 1..Len(src) : \E j \in 2..Len(src[k]) : src[k][j] = 35

(***************************************************************************)
(* C7                                                                      *)
(***************************************************************************)
\* C7: a marker line with no body line before the next marker line or the end
\* adds no entry to sections and leaves conclusion as it is; every entry of
\* sections, and the conclusion, has at least one body line: sections has at
\* most one entry per saved block with a body, none with an empty body, and
\* conclusion is non-empty exactly when a conclusion block with a body has
\* been saved.
C7_EmptyHeadingDropped ==
    LET B == Blocks
        full == {n \in 1..Len(B) : Saved(B[n]) /\ B[n].body # <<>>}
    IN /\ \A j \in 1..Len(parsed.sections) : parsed.sections[j].p # <<>>
       /\ Len(parsed.sections) <= Cardinality(full)
       /\ parsed.conclusion # <<>> <=> full \cap ConclusionHeadings(B) # {}

\* A heading with no body line, after the title, has been passed, and a
\* later heading with a body has been saved.
C7_Witness ==
    /\ pc = "parsed"
    /\ Len(parsed.sections) >= 1
    /\ LET B == Blocks
       IN \E n \in 1..Len(B) :
             /\ n > TitleBlock(B)
             /\ TitleBlock(B) > 0
             /\ B[n].head # <<>>
             /\ B[n].body = <<>>

(***************************************************************************)
(* C8                                                                      *)
(***************************************************************************)
\* The block the parser is in: the last one whose marker line it has handled.
OpenBlock(B) ==
    LET begun == {n \in 1..Len(B) :
                    pc # "parse" /\ Remaining < B[n].rest + Len(B[n].body) + 2}
    IN IF begun = {} THEN 0 ELSE CHOOSE n \in begun : \A m \in begun : m <= n

\* C8: the body of every entry of sections, and the conclusion, is the body
\* lines of its block (trimmed, non-blank, in source order) joined by single
\* spaces; the lines accumulated for the block in progress are the body lines
\* of that block handled so far, blank lines neither ending it nor adding to it.
C8_BodyJoined ==
    LET B == Blocks
        done == {n \in 1..Len(B) : Saved(B[n]) /\ B[n].body # <<>>}
        open == OpenBlock(B)
    IN /\ \A j \in 1..Len(parsed.sections) :
             \E n \in done :
                 parsed.sections[j] = [h2 |-> B[n].head, p |-> JoinedBody(B[n])]
       /\ parsed.conclusion # <<>> =>
             \E n \in done :
                 /\ MatchesKeyword(B[n].head)
                 /\ parsed.conclusion = JoinedBody(B[n])
       /\ (pc = "loop" /\ current_p_lines # <<>>) =>
             /\ open > 0
             /\ current_p_lines =
                   SubSeq(B[open].body, 1,
                          Len(B[open].body) + B[open].rest + 1 - Remaining)

\* A section whose two body lines had a blank line between them has been
\* parsed.
C8_Witness ==
    /\ pc = "parsed"
    /\ \E k \in 2..(Len(lines) - 1) :
          /\ Strip(lines[k]) = <<>>
          /\ Strip(lines[k - 1]) # <<>> /\ ~IsMarker(lines[k - 1])
          /\ Strip(lines[k + 1]) # <<>> /\ ~IsMarker(lines[k + 1])
    /\ LET B == Blocks
       IN \E n \in 1..Len(B) :
             /\ Len(B[n].body) >= 2
             /\ Len(parsed.sections) = 1
             /\ parsed.sections[1].p = JoinedBody(B[n])

(***************************************************************************)
(* C9                                                                      *)
(***************************************************************************)
\* C9: the first marker line gives only the title: until the parser is past
\* the second marker line (or for good, if there is none), sections and
\* conclusion are empty and no line is accumulated, whatever the lines before
\* the first marker line and between it and the second are, also when the
\* first marker line's text starts with "вывод".
C9_TitleLineOnlyTitle ==
    LET B == Blocks
    IN (B # <<>> /\ NotPast(B[1])) =>
          /\ parsed.sections = <<>>
          /\ parsed.conclusion = <<>>
          /\ current_p_lines = <<>>

\* A text with lines before the first marker line, a first marker line
\* matching the keyword and body lines under it has been parsed.
C9_Witness ==
    /\ pc = "parsed"
    /\ LET B == Blocks
       IN /\ B # <<>>
          /\ B[1].at > 1
          /\ MatchesKeyword(B[1].head)
          /\ B[1].body # <<>>
          /\ parsed.title = B[1].head
          /\ Len(B) >= 2
          /\ B[2].body # <<>>

(***************************************************************************)
(* C10                                                                     *)
(***************************************************************************)
\* C10: the entries of sections are in the order of their heading lines in
\* the text: they are the headings and joined bodies of saved blocks taken
\* in strictly increasing source order, none twice.
C10_SectionOrder ==
    LET B == Blocks
        S == parsed.sections
    IN \E f \in [1..Len(S) -> 1..Len(B)] :
          /\ \A j \in 1..Len(S) :
                /\ Saved(B[f[j]])
                /\ S[j] = [h2 |-> B[f[j]].head, p |-> JoinedBody(B[f[j]])]
          /\ \A j \in 1..(Len(S) - 1) : f[j] < f[j + 1]

\* Two different sections have been parsed.
C10_Witness ==
    /\ pc = "parsed"
    /\ Len(parsed.sections) >= 2
    /\ parsed.sections[1].h2 # parsed.sections[2].h2
    /\ parsed.sections[1].p # parsed.sections[2].p

(***************************************************************************)
(* C11: one heading and one paragraph per section, in order                *)
(***************************************************************************)
\* The elements of the document that stand between the level-one heading
\* and the conclusion container.
SectionElements(h) ==
    LET last == IF HasConclusionContainer(h) THEN Len(h) - 4 ELSE Len(h)
    IN SubSeq(h, 3, last)

\* C11: the document generate_html builds holds, for the j-th entry of
\* parsed['sections'], one h2 element with the entry's heading as it is,
\* followed at once by one p element with the entry's body as it is; the
\* pairs stand in the order of the list, and there are as many pairs as
\* there are entries.
C11_SectionPairs ==
    html # <<>> =>
        LET S == parsed.sections
            E == SectionElements(html)
        IN /\ Len(E) = 2 * Len(S)
           /\ \A j \in 1..Len(S) :
                  /\ E[2 * j - 1] = [tag |-> "h2", text |-> S[j].h2]
                  /\ E[2 * j] = [tag |-> "p", text |-> S[j].p]

\* Two different sections have been rendered.
C11_Witness ==
    /\ pc = "done"
    /\ Len(parsed.sections) = 2
    /\ parsed.sections[1] # parsed.sections[2]
    /\ Len(SectionElements(html)) = 4

(***************************************************************************)
(* C12: the conclusion container                                           *)
(***************************************************************************)
\* The positions of the document where a conclusion container opens.
ContainerStarts(h) == {k \in 1..Len(h) : h[k].tag = "div class='conclusion'"}

\* C12: the document generate_html builds holds the conclusion container
\* (its opening, the subheading "Вывод", one paragraph, its closing) once,
\* after the elements of all sections, when parsed['conclusion'] is not
\* empty, and no container at all when it is empty.
C12_ConclusionContainer ==
    html # <<>> =>
        LET n == 2 + 2 * Len(parsed.sections)
        IN IF parsed.conclusion # <<>>
           THEN /\ ContainerStarts(html) = {n + 1}
                /\ Len(html) = n + 4
                /\ html[n + 2] = [tag |-> "h2", text |-> ConclusionLabel]
                /\ html[n + 3].tag = "p"
                /\ html[n + 4].tag = "/div"
                /\ \A k \in 1..n : html[k].tag \in {"title", "h1", "h2", "p"}
           ELSE /\ ContainerStarts(html) = {}
                /\ Len(html) = n
                /\ \A k \in 1..n : html[k].tag \in {"title", "h1", "h2", "p"}

\* A document with a section and a conclusion has been rendered.
C12_Witness ==
    /\ pc = "done"
    /\ parsed.sections # <<>>
    /\ parsed.conclusion # <<>>
    /\ ContainerStarts(html) = {Len(html) - 3}

(***************************************************************************)
(* C13: a prompt without exactly five words stops main before the core     *)
(***************************************************************************)
\* The number of whitespace-separated tokens of a str: the positions where
\* a character that is no whitespace follows the start or a whitespace.
TokenCount(s) ==
    Cardinality({k \in 1..Len(s) :
                    ~IsSpace(s[k]) /\ (k = 1 \/ IsSpace(s[k - 1]))})

\* C13: when the prompt does not hold exactly five whitespace-separated
\* tokens, main never gets past parse_input: generate_raw_text,
\* clean_and_parse_qwen_output and generate_html are not called (no text is
\* generated, nothing is parsed, no document is built), nothing but the
\* error message is printed and no output file is written.
C13_RejectedBeforeCore ==
    TokenCount(prompt) # 5 =>
        /\ pc \in {"start", "rejected"}
        /\ keywords = None
        /\ raw_text = <<>>
        /\ lines = <<>>
        /\ parsed = InitialParsed
        /\ html = <<>>
        /\ out_file = NoFile
        /\ \A k \in 1..Len(stdout) : stdout[k].msg = "error"
        /\ pc = "rejected" => Len(stdout) = 1

\* A prompt of six tokens has been rejected.
C13_Witness ==
    /\ pc = "rejected"
    /\ TokenCount(prompt) = 6
    /\ stdout = << [msg |-> "error", arg |-> 6] >>

(***************************************************************************)
(* C14: the order of the pipeline in main                                  *)
(***************************************************************************)
\* The stages of main in the order of its statements.
Stage(p) ==
    CASE p = "start" -> 0
      [] p = "generate" -> 1
      [] p = "parse" -> 2
      [] p = "loop" -> 3
      [] p = "parsed" -> 4
      [] p \in {"done", "rejected", "failed"} -> 5

\* The number of messages of one kind among what was printed.
Printed(out, m) == Cardinality({k \in 1..Len(out) : out[k].msg = m})

\* What every step of a run does: it leaves no final position, it moves
\* forward (the parse loop aside, which stays in place), it generates only
\* in the generation stage, parses only in the parsing stage, renders only
\* after the parser has returned, and writes to the file, which was not
\* there before, only in the rendering step; a run that ends with success
\* leaves the whole document in it.
C14_Step ==
    /\ pc \notin {"done", "rejected", "failed"}
    /\ Stage(pc') > Stage(pc) \/ (pc = "loop" /\ pc' = "loop")
    /\ (raw_text' # raw_text \/ keywords' # keywords) => Stage(pc) <= 1
    /\ Printed(stdout', "generating") # Printed(stdout, "generating")
          => pc = "generate"
    /\ Printed(stdout', "saved") # Printed(stdout, "saved")
          => (pc = "parsed" /\ out_file' = File(html', TRUE))
    /\ <<lines, i, parsed, current_h2, current_p_lines, in_conclusion>>' #
          <<lines, i, parsed, current_h2, current_p_lines, in_conclusion>>
          => pc \in {"parse", "loop"}
    /\ html' # html => (pc = "parsed" /\ i > Len(lines))
    /\ out_file' # out_file =>
          (pc = "parsed" /\ i > Len(lines) /\ out_file = NoFile)
    /\ pc' = "done" => out_file' = File(html', TRUE)

\* C14: in a run of main, generation, parsing and rendering each run at
\* most once and in this order, one after the other; the output file is
\* written at most once, and only after parsing has completed; a failure
\* of the generation call or of the write ends the run, nothing is tried
\* again.
C14_PipelineOrder == [][C14_Step]_vars

\* A run that generated, parsed, rendered and wrote the file, each once.
C14_Witness ==
    /\ pc = "done"
    /\ out_file = File(html, TRUE)
    /\ Len(stdout) = 2
    /\ stdout[1].msg = "generating"
    /\ stdout[2].msg = "saved"
    /\ parsed.sections # <<>>

\* A run that the generation call ended.
C14_GenerationFailed ==
    pc = "failed" /\ raw_text = <<>> /\ Len(stdout) = 1

\* A run that the write ended.
C14_WriteFailed ==
    /\ pc = "failed"
    /\ html # <<>>
    /\ out_file.exists
    /\ ~out_file.whole
    /\ Len(out_file.text) = 3
    /\ Len(html) = 4

(***************************************************************************)
(* C16: every ordinary heading with a body gives one section               *)
(***************************************************************************)
\* C16: every marker line, other than the first marker line, whose text
\* does not start (ignoring case) with "вывод" and that is followed by at
\* least one body line gives exactly one entry of the sections returned:
\* the entry's heading is the text of the line, whatever it is (the empty
\* text too), its body the joined body lines; the entries stand in the
\* order of the lines.
C16_EveryHeadingContributes ==
    pc \in {"parsed", "done"} =>
        LET B == Blocks
            ord == OrdinaryBlocks(B)
            nth(j) == CHOOSE n \in ord : Cardinality({m \in ord : m < n}) = j - 1
        IN /\ Len(parsed.sections) = Cardinality(ord)
           /\ \A j \in 1..Len(parsed.sections) :
                  parsed.sections[j] =
                      [h2 |-> B[nth(j)].head, p |-> JoinedBody(B[nth(j)])]

\* C16 where the first marker line has text and every later one too: there
\* the statement holds.
C16_WithNamedHeadings ==
    LET B == Blocks
    IN (pc \in {"parsed", "done"} /\ \A n \in 1..Len(B) : B[n].head # <<>>)
          => C16_EveryHeadingContributes

(***************************************************************************)
(* C17: a block is saved under the heading and flag it was collected with  *)
(***************************************************************************)
\* The blocks the parser collects: those after the title line whose heading
\* has text and that have at least one body line.
Collected(B) ==
    {n \in 1..Len(B) : /\ TitleBlock(B) > 0
                       /\ n > TitleBlock(B)
                       /\ B[n].head # <<>>
                       /\ B[n].body # <<>>}

\* The blocks with a body that the parser has gone past, the first marker
\* line's aside.
PastBlocks(B) == {n \in 2..Len(B) : B[n].body # <<>> /\ Saved(B[n])}

\* C17: at a marker line the block in progress is saved under the heading
\* and the conclusion flag in force before the new heading applies, so the
\* body of a block always goes with the heading it followed: at every step
\* sections holds, in order, the blocks gone past that have an ordinary
\* heading, each under its own heading, and conclusion holds the body of
\* the last block gone past that has a conclusion heading; a conclusion
\* block followed by an ordinary heading is in conclusion and in no
\* section, an ordinary block followed by a conclusion heading is in
\* sections and not in conclusion.  The block in progress when the input
\* ends is saved once by the same rule: a last heading with body lines is
\* never lost.
C17_BodyUnderOwnHeading ==
    LET B == Blocks
        sec == {n \in PastBlocks(B) : ~MatchesKeyword(B[n].head)}
        con == PastBlocks(B) \ sec
        nth(j) == CHOOSE n \in sec : Cardinality({m \in sec : m < n}) = j - 1
    IN /\ Len(parsed.sections) = Cardinality(sec)
       /\ \A j \in 1..Len(parsed.sections) :
              parsed.sections[j] =
                  [h2 |-> B[nth(j)].head, p |-> JoinedBody(B[nth(j)])]
       /\ parsed.conclusion =
              IF con = {} THEN <<>>
              ELSE JoinedBody(B[CHOOSE n \in con : \A m \in con : m <= n])
       /\ (pc \in {"parsed", "done"} /\ Len(B) >= 2
              /\ B[Len(B)].body # <<>>) =>
              IF MatchesKeyword(B[Len(B)].head)
              THEN parsed.conclusion = JoinedBody(B[Len(B)])
              ELSE /\ parsed.sections # <<>>
                   /\ parsed.sections[Len(parsed.sections)] =
                         [h2 |-> B[Len(B)].head, p |-> JoinedBody(B[Len(B)])]

\* The same statement for the blocks the parser collects only (after the
\* line that gave the title, under a heading with text): for these the
\* save comes before the new heading, and the last block is saved once.
C17_FlushBeforeReset ==
    LET B == Blocks
        saved == {n \in Collected(B) : Saved(B[n])}
        sec == {n \in saved : ~MatchesKeyword(B[n].head)}
        con == saved \ sec
        nth(j) == CHOOSE n \in sec : Cardinality({m \in sec : m < n}) = j - 1
    IN /\ Len(parsed.sections) = Cardinality(sec)
       /\ \A j \in 1..Len(parsed.sections) :
              parsed.sections[j] =
                  [h2 |-> B[nth(j)].head, p |-> JoinedBody(B[nth(j)])]
       /\ parsed.conclusion =
              IF con = {} THEN <<>>
              ELSE JoinedBody(B[CHOOSE n \in con : \A m \in con : m <= n])
       /\ (pc \in {"parsed", "done", "failed"} /\ Truthy(current_h2)
              /\ current_p_lines # <<>>) =>
              IF in_conclusion
              THEN parsed.conclusion = Join(current_p_lines, <<32>>)
              ELSE parsed.sections[Len(parsed.sections)] =
                       [h2 |-> current_h2, p |-> Join(current_p_lines, <<32>>)]

\* A conclusion block followed by an ordinary heading with a body that ends
\* the input: the first is the conclusion, the second the only section.
C17_Witness ==
    /\ pc = "parsed"
    /\ current_p_lines # <<>>
    /\ ~in_conclusion
    /\ LET B == Blocks
       IN /\ Len(B) = 3
          /\ MatchesKeyword(B[2].head) /\ ~MatchesKeyword(B[3].head)
          /\ parsed.conclusion = JoinedBody(B[2])
          /\ parsed.sections = << [h2 |-> B[3].head, p |-> JoinedBody(B[3])] >>
          /\ JoinedBody(B[2]) # JoinedBody(B[3])

(***************************************************************************)
(* C18: the title is set once                                              *)
(***************************************************************************)
\* The parser has handled the marker line of block b.
Handled(b) ==
    /\ pc \notin {"start", "generate", "parse"}
    /\ Remaining < b.rest + Len(b.body) + 2

\* C18: the title is empty until the parser has handled the first marker
\* line whose text is not empty, and is the text of that line from then on:
\* no later line changes it, and a marker line with empty text before it
\* leaves the title to the next marker line.
C18_TitleSetOnce ==
    LET B == Blocks
        t == TitleBlock(B)
    IN parsed.title = IF t > 0 /\ Handled(B[t]) THEN B[t].head ELSE <<>>

\* The first marker line had no text, the second gave the title, and a
\* third marker line with another text did not change it.
C18_Witness ==
    /\ pc = "parsed"
    /\ LET B == Blocks
       IN /\ Len(B) >= 3
          /\ B[1].head = <<>>
          /\ B[2].head # <<>>
          /\ B[3].head \notin {<<>>, B[2].head}
          /\ parsed.title = B[2].head

(***************************************************************************)
(* C19: what the entries of the result are                                 *)
(***************************************************************************)
\* The part of C19 that does not concern the title: headings and bodies of
\* the entries are not empty, the conclusion is empty or the joined body
\* of a saved conclusion block, and the body lines under a marker line
\* with empty text, after the title line, are collected for no block.
C19_Rest ==
    LET B == Blocks
        t == TitleBlock(B)
        open == OpenBlock(B)
    IN /\ \A j \in 1..Len(parsed.sections) :
              parsed.sections[j].h2 # <<>> /\ parsed.sections[j].p # <<>>
       /\ parsed.conclusion # <<>> =>
              \E n \in Collected(B) :
                  /\ Saved(B[n])
                  /\ MatchesKeyword(B[n].head)
                  /\ parsed.conclusion = JoinedBody(B[n])
       /\ (t > 0 /\ open > t /\ B[open].head = <<>>) =>
              (current_h2 = <<>> /\ current_p_lines = <<>>)
       /\ Len(parsed.sections) <=
              Cardinality({n \in Collected(B) : Saved(B[n])})

\* C19 as stated: in every state every entry of sections has a heading and
\* a body that are not empty, no entry has the heading of the title line
\* (no heading of an entry is the title), the conclusion is empty or a
\* joined body that is not empty, and body lines under a post-title marker
\* line with empty text are collected for no block.
C19_NoEntryHasTitleHeading ==
    /\ C19_Rest
    /\ \A j \in 1..Len(parsed.sections) :
          parsed.sections[j].h2 # parsed.title

\* C19 as amended: as above, but for the title: no entry is made from the
\* title line or from a line before it (every entry is the heading and the
\* joined body of a saved block after the title line); the text of a later
\* heading may repeat the title.
C19_NoEntryFromTitleLine ==
    /\ C19_Rest
    /\ LET B == Blocks
       IN \A j \in 1..Len(parsed.sections) :
             \E n \in Collected(B) :
                 /\ Saved(B[n])
                 /\ parsed.sections[j] =
                       [h2 |-> B[n].head, p |-> JoinedBody(B[n])]

\* A text with a title line, a section and a marker line with empty text
\* followed by a body line has been parsed: the section is the only entry.
C19_Witness ==
    /\ pc = "parsed"
    /\ current_h2 = <<>>
    /\ current_p_lines = <<>>
    /\ LET B == Blocks
       IN /\ Len(B) = 3
          /\ B[1].head # <<>>
          /\ B[3].head = <<>> /\ B[3].body # <<>>
          /\ parsed.sections = << [h2 |-> B[2].head, p |-> JoinedBody(B[2])] >>
          /\ parsed.conclusion = <<>>

(***************************************************************************)
(* C20: the accumulators of the parser                                     *)
(***************************************************************************)
\* C20: at every step of the parser, lines are collected only under a
\* heading that is set and not empty, the conclusion flag is on only while
\* the heading is "Вывод", and right after a marker line has been handled
\* no line is collected.
C20_Accumulator ==
    /\ current_p_lines # <<>> => (current_h2 # None /\ current_h2 # <<>>)
    /\ in_conclusion => current_h2 = <<1042, 1099, 1074, 1086, 1076>>
    /\ (i > 1 /\ Strip(lines[i - 1]) # <<>> /\ Strip(lines[i - 1])[1] = 35)
          => current_p_lines = <<>>

\* A conclusion heading has just been handled: the section collected before
\* it is saved, the flag is on and no line is collected.
C20_Witness ==
    /\ pc = "loop"
    /\ i > 1
    /\ IsMarker(lines[i - 1])
    /\ in_conclusion
    /\ current_h2 = ConclusionLabel
    /\ current_p_lines = <<>>
    /\ parsed.sections # <<>>

====
